---------------------------- MODULE Spec2Model ----------------------------
(***************************************************************************)
(* A model of main.py: the thumbnail/original matcher.                     *)
(*                                                                         *)
(* One behaviour is one run of main(): both ImageGroups are constructed    *)
(* path by path (__init__, line 40), the candidate group is expanded with  *)
(* its rotations (lines 41-49), lookup() fills the result dictionary one   *)
(* reference entry at a time (line 69) and the dictionary is dumped to the *)
(* output file (lines 87-88).  An exception raised by the imaging library  *)
(* ends the run in pc = "failed".                                          *)
(*                                                                         *)
(* Images are pixel grids: a width, a height, a band count and one tuple   *)
(* of band values per pixel.  The verbose flag only selects the progress   *)
(* display and is left out.                                                *)
(***************************************************************************)
EXTENDS Integers, Sequences, FiniteSets

\* Bound: the number of source paths of the two glob results together.
MaxPaths == 3

\* Bound: the largest value of a channel (255 in an 8-bit image).
MaxChannel == 2

\* Rotation angles, main.py line 14.
ANGLES == <<90, 180, 270>>

---------------------------------------------------------------------------
(* Arithmetic helpers *)

Min(a, b) == IF a < b THEN a ELSE b

Max(a, b) == IF a > b THEN a ELSE b

Abs(a) == IF a < 0 THEN -a ELSE a

\* Python's int() of the quotient n/d, d > 0: truncation toward zero.
Trunc(n, d) == IF n >= 0 THEN n \div d ELSE -((-n) \div d)

\* Rounding of n/d to the nearest integer, d > 0, n >= 0 (halves go up).
RoundNearest(n, d) == (2 * n + d) \div (2 * d)

RECURSIVE SumOver(_, _)
SumOver(S, f) ==
    IF S = {} THEN 0
    ELSE LET e == CHOOSE x \in S : TRUE
         IN  f[e] + SumOver(S \ {e}, f)

RECURSIVE Flatten(_)
Flatten(ss) == IF ss = <<>> THEN <<>> ELSE Head(ss) \o Flatten(Tail(ss))

Reverse(s) == [i \in 1..Len(s) |-> s[Len(s) + 1 - i]]

---------------------------------------------------------------------------
(* Images and the file system *)

Pixels(w, h) == (0..(w - 1)) \X (0..(h - 1))

Uniform(w, h, colour) ==
    [w |-> w, h |-> h, bands |-> Len(colour),
     px |-> [p \in Pixels(w, h) |-> colour]]

\* The files the glob patterns can match.  "u.txt" exists but is no image.
Paths == {"k.png", "h.png", "t.png", "c.png", "u.txt"}

Readable == Paths \ {"u.txt"}

\* What Image.open(path) decodes for each readable file:
\*   k.png  2x2 greyscale, black
\*   h.png  2x1 greyscale, a black pixel left of a white one
\*   t.png  5x4 greyscale, white
\*   c.png  2x2 three-band, black
RawImage(path) ==
    CASE path = "k.png" -> Uniform(2, 2, <<0>>)
      [] path = "h.png" -> [w |-> 2, h |-> 1, bands |-> 1,
                            px |-> [p \in Pixels(2, 1) |->
                                      IF p[1] = 0 THEN <<0>> ELSE <<MaxChannel>>]]
      [] path = "t.png" -> Uniform(5, 4, <<MaxChannel>>)
      [] path = "c.png" -> Uniform(2, 2, <<0, 0, 0>>)

\* The --size values tried.
Sizes == {-1, 0, 1, 2}

\* The --threshold values tried.
Thresholds == {0, 1, MaxChannel}

Dims(image) == <<image.w, image.h, image.bands>>

---------------------------------------------------------------------------
(* The imaging library *)

\* Image.Resize((nw, nh)) for nw, nh >= 1.  A resize to the image's own
\* size is a copy; otherwise pixels are sampled at the centre of each
\* output pixel (every resampling filter agrees on a uniform image).
Resize(image, nw, nh) ==
    IF nw = image.w /\ nh = image.h THEN image
    ELSE [w |-> nw, h |-> nh, bands |-> image.bands,
          px |-> [p \in Pixels(nw, nh) |->
                    image.px[<< ((2 * p[1] + 1) * image.w) \div (2 * nw),
                                ((2 * p[2] + 1) * image.h) \div (2 * nh) >>]]]

\* Image.Rotate(angle, expand=True) for a multiple of 90 degrees is an exact
\* counter-clockwise transposition; 90 and 270 swap width and height.
Rotate(image, angle) ==
    CASE angle = 90 ->
           [w |-> image.h, h |-> image.w, bands |-> image.bands,
            px |-> [p \in Pixels(image.h, image.w) |->
                      image.px[<<image.w - 1 - p[2], p[1]>>]]]
      [] angle = 180 ->
           [w |-> image.w, h |-> image.h, bands |-> image.bands,
            px |-> [p \in Pixels(image.w, image.h) |->
                      image.px[<<image.w - 1 - p[1], image.h - 1 - p[2]>>]]]
      [] angle = 270 ->
           [w |-> image.h, h |-> image.w, bands |-> image.bands,
            px |-> [p \in Pixels(image.h, image.w) |->
                      image.px[<<p[2], image.h - 1 - p[1]>>]]]

\* ImageChops.difference raises ValueError when the band counts differ.
DifferenceRaises(image1, image2) == image1.bands # image2.bands

\* ImageChops.difference works on the region both images cover.
Overlap(image1, image2) ==
    Pixels(Min(image1.w, image2.w), Min(image1.h, image2.h))

---------------------------------------------------------------------------
(* main.py, module level *)

\* meandiff (lines 17-18): the mean over the bands of the per-band mean
\* absolute difference, kept as an exact fraction <<numerator, denominator>>.
meandiff(image1, image2) ==
    LET region == Overlap(image1, image2)
        perPixel == [p \in region |->
                       SumOver(1..image1.bands,
                               [c \in 1..image1.bands |->
                                  Abs(image1.px[p][c] - image2.px[p][c])])]
    IN  << SumOver(region, perPixel), Cardinality(region) * image1.bands >>

\* resize_to_fit (lines 21-24): the size Resize() is asked for.
\* rate = size / max(width, height); int(width * rate), int(height * rate).
NewSize(image, size) ==
    LET longer == Max(image.w, image.h)
    IN  << Trunc(image.w * size, longer), Trunc(image.h * size, longer) >>

\* Image.resize raises ValueError for a width or height below 1.
ResizeRaises(image, size) ==
    NewSize(image, size)[1] < 1 \/ NewSize(image, size)[2] < 1

resize_to_fit(image, size) ==
    Resize(image, NewSize(image, size)[1], NewSize(image, size)[2])

\* rotate_to_multiple_angles (lines 27-28).
rotate_to_multiple_angles(image) ==
    <<image>> \o [i \in 1..Len(ANGLES) |-> Rotate(image, ANGLES[i])]


---------------------------------------------------------------------------
(* class ImageGroup *)

\* An ImageGroup whose constructor has not returned holds nothing.
NoGroup == [built |-> FALSE, images |-> <<>>]

Entry(path, image) == [path |-> path, image |-> image]

\* A plausible slip: flattening angle by angle instead of path by path.
RotatedByAngle(resized_images) ==
    Flatten([a \in 1..(Len(ANGLES) + 1) |->
               [i \in 1..Len(resized_images) |->
                  Entry(resized_images[i].path,
                        rotate_to_multiple_angles(resized_images[i].image)[a])]])

\* __init__ lines 42-46: every (path, image) followed by its rotations.
RotatedImages(resized_images) ==
    Flatten([i \in 1..Len(resized_images) |->
               [a \in 1..Len(rotate_to_multiple_angles(resized_images[i].image)) |->
                  Entry(resized_images[i].path,
                        rotate_to_multiple_angles(resized_images[i].image)[a])]])

\* __init__ lines 41-49: what self.images is bound to.
GroupImages(resized_images, rot) ==
    IF rot THEN RotatedImages(resized_images) ELSE resized_images

\* A plausible slip: a constructor that keeps what it loaded so far.
PartialGroup(resized_images) == [built |-> TRUE, images |-> resized_images]

\* An exception inside the comprehension of line 40 leaves __init__ before
\* self.images is bound, and the caller's name for the group is never bound.
GroupAfterError(resized_images) == NoGroup

\* A plausible slip: <= for <.
NotAbove(diff, thr) == diff[1] <= thr * diff[2]

\* The comparison of line 61, diff < threshold, on the exact fraction.
Below(diff, thr) == diff[1] < thr * diff[2]

\* ImageGroup.meandiff (lines 57-58) raises when some pair raises.
GroupRaises(images, image) ==
    \E i \in 1..Len(images) : DifferenceRaises(image, images[i].image)

\* The pairs line 58 hands to meandiff before it returns or raises.
PairsCompared(images, image) ==
    LET bad == {i \in 1..Len(images) : DifferenceRaises(image, images[i].image)}
        last == IF bad = {} THEN Len(images)
                ELSE CHOOSE i \in bad : \A j \in bad : i <= j
    IN  [i \in 1..last |-> <<Dims(image), Dims(images[i].image)>>]

RECURSIVE SelectPaths(_, _, _)
SelectPaths(images, image, thr) ==
    IF images = <<>> THEN <<>>
    ELSE (IF Below(meandiff(image, Head(images).image), thr)
          THEN <<Head(images).path>> ELSE <<>>)
         \o SelectPaths(Tail(images), image, thr)

\* A plausible slip: the matches collected back to front.
filter_similar_reversed(images, image, thr) ==
    Reverse(SelectPaths(images, image, thr))

\* filter_similar (lines 60-61) over self.images.
filter_similar(images, image, thr) == SelectPaths(images, image, thr)

\* A plausible slip: a key only for references that matched something.
DictPutMatched(d, key, value) ==
    IF value = <<>> THEN d
    ELSE [k \in DOMAIN d \cup {key} |-> IF k = key THEN value ELSE d[k]]

\* One item of the dict comprehension of line 69: a repeated key is
\* overwritten.
DictPut(d, key, value) ==
    [k \in DOMAIN d \cup {key} |-> IF k = key THEN value ELSE d[k]]

EmptyDict == [k \in {} |-> <<>>]

---------------------------------------------------------------------------
(* main *)

\* A plausible slip: the output file opened before the comparison.
WriteFirst(stage) ==
    CASE stage = "init1" -> "init2"
      [] stage = "init2" -> "write"
      [] stage = "write" -> "lookup"
      [] stage = "lookup" -> "done"

\* The statements of main (lines 84-88) in order.
NextStage(stage) ==
    CASE stage = "init1" -> "init2"
      [] stage = "init2" -> "lookup"
      [] stage = "lookup" -> "write"
      [] stage = "write" -> "done"

NoFile == [exists |-> FALSE, content |-> EmptyDict]

VARIABLES
    paths1,     \* glob(pattern1)
    paths2,     \* glob(pattern2)
    size,       \* --size
    rotate,    \* --rotate
    threshold,  \* --threshold
    pc,         \* the statement of main being executed
    resized,    \* resized_images of the constructor that is running
    opened,     \* the paths given to Image.open so far, in order
    grp1,       \* main's grp1
    grp2,       \* main's grp2
    done,       \* the number of reference entries lookup has processed
    diffs,      \* the dictionary lookup is building
    calls,      \* the pairs the last step of lookup handed to meandiff
    ncalls,     \* the number of meandiff calls so far
    outfile,    \* the file at outpath
    err         \* the exception that ended the run

vars == <<paths1, paths2, size, rotate, threshold, pc, resized, opened,
          grp1, grp2, done, diffs, calls, ncalls, outfile, err>>

inputs == <<paths1, paths2, size, rotate, threshold>>

PathLists(n) == UNION {[1..k -> Paths] : k \in 0..n}

Init ==
    /\ paths1 \in PathLists(MaxPaths)
    /\ paths2 \in PathLists(MaxPaths - Len(paths1))
    /\ size \in Sizes
    /\ rotate \in BOOLEAN
    /\ threshold \in Thresholds
    /\ pc = "init1"
    /\ resized = <<>>
    /\ opened = <<>>
    /\ grp1 = NoGroup
    /\ grp2 = NoGroup
    /\ done = 0
    /\ diffs = EmptyDict
    /\ calls = <<>>
    /\ ncalls = 0
    /\ outfile = NoFile
    /\ err = "none"

Constructing == pc \in {"init1", "init2"}

CurrentPaths == IF pc = "init1" THEN paths1 ELSE paths2

\* The rotate argument of the constructor call: False for grp1 (line 84).
CurrentRotate == IF pc = "init1" THEN FALSE ELSE rotate

NextPath == CurrentPaths[Len(resized) + 1]

Fail(kind) ==
    /\ pc' = "failed"
    /\ err' = kind
    /\ grp1' = IF pc = "init1" THEN GroupAfterError(resized) ELSE grp1
    /\ grp2' = IF pc = "init2" THEN GroupAfterError(resized) ELSE grp2
    /\ resized' = <<>>

\* Line 40, one path: Image.open(path) raises.
OpenFails ==
    /\ Constructing
    /\ Len(resized) < Len(CurrentPaths)
    /\ NextPath \notin Readable
    /\ opened' = Append(opened, NextPath)
    /\ Fail("decode")
    /\ UNCHANGED <<inputs, done, diffs, calls, ncalls, outfile>>

\* Line 40, one path: the image is opened and resize raises.
ResizeFails ==
    /\ Constructing
    /\ Len(resized) < Len(CurrentPaths)
    /\ NextPath \in Readable
    /\ ResizeRaises(RawImage(NextPath), size)
    /\ opened' = Append(opened, NextPath)
    /\ Fail("size")
    /\ UNCHANGED <<inputs, done, diffs, calls, ncalls, outfile>>

\* Line 40, one path: the image is opened, resized and collected.
LoadImage ==
    /\ Constructing
    /\ Len(resized) < Len(CurrentPaths)
    /\ NextPath \in Readable
    /\ ~ResizeRaises(RawImage(NextPath), size)
    /\ opened' = Append(opened, NextPath)
    /\ resized' = Append(resized, Entry(NextPath, resize_to_fit(RawImage(NextPath), size)))
    /\ UNCHANGED <<inputs, pc, grp1, grp2, done, diffs, calls, ncalls, outfile, err>>

\* Lines 41-49: self.images is bound and the constructor returns.
FinishGroup ==
    /\ Constructing
    /\ Len(resized) = Len(CurrentPaths)
    /\ grp1' = IF pc = "init1"
               THEN [built |-> TRUE, images |-> GroupImages(resized, CurrentRotate)]
               ELSE grp1
    /\ grp2' = IF pc = "init2"
               THEN [built |-> TRUE, images |-> GroupImages(resized, CurrentRotate)]
               ELSE grp2
    /\ resized' = <<>>
    /\ pc' = NextStage(pc)
    /\ UNCHANGED <<inputs, opened, done, diffs, calls, ncalls, outfile, err>>

\* Line 69, one reference entry: other.filter_similar(image, threshold).
LookupEntry ==
    /\ pc = "lookup"
    /\ done < Len(grp1.images)
    /\ LET ref == grp1.images[done + 1]
       IN  /\ ~GroupRaises(grp2.images, ref.image)
           /\ calls' = PairsCompared(grp2.images, ref.image)
           /\ ncalls' = ncalls + Len(grp2.images)
           /\ diffs' = DictPut(diffs, ref.path,
                               filter_similar(grp2.images, ref.image, threshold))
    /\ done' = done + 1
    /\ UNCHANGED <<inputs, pc, resized, opened, grp1, grp2, outfile, err>>

\* Line 69, one reference entry: ImageChops.difference raises.
LookupFails ==
    /\ pc = "lookup"
    /\ done < Len(grp1.images)
    /\ LET ref == grp1.images[done + 1]
       IN  /\ GroupRaises(grp2.images, ref.image)
           /\ calls' = PairsCompared(grp2.images, ref.image)
           /\ ncalls' = ncalls + Len(PairsCompared(grp2.images, ref.image))
    /\ pc' = "failed"
    /\ err' = "mismatch"
    /\ UNCHANGED <<inputs, resized, opened, grp1, grp2, done, diffs, outfile>>

\* Line 70: lookup returns the dictionary.
LookupReturns ==
    /\ pc = "lookup"
    /\ done = Len(grp1.images)
    /\ pc' = NextStage(pc)
    /\ UNCHANGED <<inputs, resized, opened, grp1, grp2, done, diffs, calls,
                   ncalls, outfile, err>>

\* Lines 87-88: the output file is opened and the dictionary dumped.
WriteOutput ==
    /\ pc = "write"
    /\ outfile' = [exists |-> TRUE, content |-> diffs]
    /\ pc' = NextStage(pc)
    /\ UNCHANGED <<inputs, resized, opened, grp1, grp2, done, diffs, calls,
                   ncalls, err>>

Next ==
    \/ OpenFails
    \/ ResizeFails
    \/ LoadImage
    \/ FinishGroup
    \/ LookupEntry
    \/ LookupFails
    \/ LookupReturns
    \/ WriteOutput

Spec == Init /\ [][Next]_vars

---------------------------------------------------------------------------
(* Properties *)

Listed(list) == {list[i] : i \in 1..Len(list)}

\* The reference entries lookup has processed.
Processed == {grp1.images[k] : k \in 1..done}

\* The candidate entries scoring strictly below the threshold against image.
MatchingAt(image) ==
    {j \in 1..Len(grp2.images) :
        meandiff(image, grp2.images[j].image)[1]
            < threshold * meandiff(image, grp2.images[j].image)[2]}

\* C1: for every processed reference entry and every candidate identifier,
\* the identifier is listed under the reference identifier exactly when some
\* candidate entry carrying it scores strictly below the threshold; an entry
\* scoring exactly the threshold does not get it listed.
C1_ListedIffBelowThreshold ==
    \A ref \in Processed : \A cand \in Paths :
        (cand \in Listed(diffs[ref.path]))
            <=> (\E j \in MatchingAt(ref.image) : grp2.images[j].path = cand)

\* C1, its case: one candidate scores exactly the threshold and is left out
\* while another scores below it and is listed.
C1_Witness ==
    /\ threshold > 0
    /\ \E ref \in Processed :
         /\ \E j \in 1..Len(grp2.images) :
              /\ meandiff(ref.image, grp2.images[j].image)[1]
                    = threshold * meandiff(ref.image, grp2.images[j].image)[2]
              /\ grp2.images[j].path \notin Listed(diffs[ref.path])
         /\ diffs[ref.path] # <<>>

NoRepeats(list) == \A i, j \in 1..Len(list) : list[i] = list[j] => i = j

\* C2: no candidate identifier is listed twice under one reference
\* identifier.  Stated for candidate collections built from pairwise
\* distinct source paths, where a repetition can only come from rotations.
C2_NoCandidateListedTwice ==
    NoRepeats(paths2) => \A key \in DOMAIN diffs : NoRepeats(diffs[key])

\* C3: every pair handed to the difference metric has the same width,
\* height and band count.
C3_SameShapeAtMetric ==
    \A i \in 1..Len(calls) : calls[i][1] = calls[i][2]

\* C4: once lookup has returned, the keys of the result are exactly the
\* identifiers of the reference collection; a reference nothing matched maps
\* to the empty list, an empty candidate collection gives only empty lists
\* and an empty reference collection gives the empty mapping.
C4_EveryReferenceIsAKey ==
    pc \in {"write", "done"} =>
        /\ DOMAIN diffs = {grp1.images[k].path : k \in 1..Len(grp1.images)}
        /\ \A ref \in Processed :
             MatchingAt(ref.image) = {} => diffs[ref.path] = <<>>
        /\ grp2.images = <<>> => \A key \in DOMAIN diffs : diffs[key] = <<>>
        /\ grp1.images = <<>> => diffs = EmptyDict
        /\ pc = "done" => outfile.content = diffs

\* C4, its case: lookup returned one reference with matches and one without.
C4_Witness ==
    /\ pc = "done"
    /\ \E k1, k2 \in DOMAIN diffs : diffs[k1] = <<>> /\ diffs[k2] # <<>>

\* C5: the identifiers listed for a reference are in candidate order: when
\* x is listed before y, a matching entry of x precedes a matching entry of
\* y in the candidate collection.
C5_ListedInCandidateOrder ==
    \A ref \in Processed :
        \A i, j \in 1..Len(diffs[ref.path]) :
            i < j =>
                \E p, q \in MatchingAt(ref.image) :
                    /\ p < q
                    /\ grp2.images[p].path = diffs[ref.path][i]
                    /\ grp2.images[q].path = diffs[ref.path][j]

\* C5, its case: two different candidates are listed for one reference.
C5_Witness ==
    \E ref \in Processed : Cardinality(Listed(diffs[ref.path])) >= 2

\* C6: an unreadable source path aborts the construction at that path and
\* leaves no collection, not even a partial one; a collection built without
\* rotation holds exactly one entry per source path, in order.
C6_NoPartialCollection ==
    /\ err = "decode" =>
          /\ pc = "failed"
          /\ opened[Len(opened)] \notin Readable
          /\ opened = SubSeq(paths1 \o paths2, 1, Len(opened))
          /\ ~grp2.built
          /\ Len(opened) <= Len(paths1) => ~grp1.built
    /\ grp1.built => \A i \in 1..Len(paths1) : paths1[i] \in Readable
    /\ grp2.built => \A i \in 1..Len(paths2) : paths2[i] \in Readable
    /\ grp1.built =>
          /\ Len(grp1.images) = Len(paths1)
          /\ \A i \in 1..Len(paths1) : grp1.images[i].path = paths1[i]
    /\ (grp2.built /\ ~rotate) =>
          /\ Len(grp2.images) = Len(paths2)
          /\ \A i \in 1..Len(paths2) : grp2.images[i].path = paths2[i]

\* C6, its case: the constructor fails after loading an earlier source.
C6_Witness ==
    /\ err = "decode"
    /\ Len(opened) >= 2
    /\ Len(opened) <= Len(paths1)
    /\ ~grp1.built

\* C7: every source of both collections is loaded before the first
\* comparison, the output file is written only after the last one, and a
\* failed run leaves no output file.
C7_LoadCompareWrite ==
    /\ (done > 0 \/ ncalls > 0) =>
          /\ grp1.built /\ grp2.built
          /\ opened = paths1 \o paths2
    /\ outfile.exists =>
          /\ pc = "done"
          /\ grp1.built /\ grp2.built
          /\ done = Len(grp1.images)
          /\ ncalls = Len(grp1.images) * Len(grp2.images)
    /\ pc = "failed" => ~outfile.exists

\* C7, its case: a run that compared images and wrote its result.
C7_Witness == pc = "done" /\ outfile.exists /\ ncalls > 1

\* C8: a size that resolves to a width or height below 1 fails the run with
\* an invalid-size error before any source image is opened.
C8_InvalidSizeBeforeLoading ==
    /\ err = "size" => opened = <<>>
    /\ pc = "done" => size > 0

\* C9: the normalized width and height are the scaled lengths rounded to the
\* nearest integer.
C9_RoundedDimensions ==
    \A i \in 1..Len(resized) :
        LET raw == RawImage(resized[i].path)
            longer == Max(raw.w, raw.h)
        IN  /\ resized[i].image.w = RoundNearest(raw.w * size, longer)
            /\ resized[i].image.h = RoundNearest(raw.h * size, longer)

\* C10: with rotation a collection of N sources holds 4N entries: for each
\* source, in order, the resized image and its rotations by 90, 180 and 270
\* degrees, all under the source's path.
C10_FourEntriesPerSource ==
    (grp2.built /\ rotate) =>
        /\ Len(grp2.images) = 4 * Len(paths2)
        /\ \A i \in 1..Len(paths2) :
             LET image == resize_to_fit(RawImage(paths2[i]), size)
                 at == 4 * (i - 1)
             IN  /\ \A a \in 1..4 : grp2.images[at + a].path = paths2[i]
                 /\ grp2.images[at + 1].image = image
                 /\ grp2.images[at + 2].image = Rotate(image, 90)
                 /\ grp2.images[at + 3].image = Rotate(image, 180)
                 /\ grp2.images[at + 4].image = Rotate(image, 270)

\* C10, its case: a rotated collection of two different sources.
C10_Witness ==
    /\ grp2.built
    /\ rotate
    /\ Len(paths2) = 2
    /\ paths2[1] # paths2[2]

============================================================================
